---- MODULE Spec2Model ----
(***************************************************************************)
(* Model of tk-auth (src/src/main.rs): an in-memory session store behind   *)
(* three HTTP handlers (post_new_session, post_authenticate,               *)
(* get_session_state), with the SessionId <-> base64 string codec.         *)
(*                                                                         *)
(* Strings that go through the codec are sequences of one-character         *)
(* strings; a SessionId is a sequence of 16 bytes (0..255).                 *)
(* The base64 engine is URL_SAFE_NO_PAD of the base64 crate (0.22          *)
(* semantics: decode_slice accepts an output slice of exactly the decoded   *)
(* length, and returns the number of bytes it wrote).                       *)
(***************************************************************************)
EXTENDS Integers, Sequences, FiniteSets, TLC

(***************************************************************************)
(* Identifier codec                                                        *)
(***************************************************************************)

\* struct SessionId { id: [u8; 16] }
IdLen == 16

\* the URL-safe alphabet of base64::engine::general_purpose::URL_SAFE_NO_PAD
Alphabet ==
  << "A","B","C","D","E","F","G","H","I","J","K","L","M",
     "N","O","P","Q","R","S","T","U","V","W","X","Y","Z",
     "a","b","c","d","e","f","g","h","i","j","k","l","m",
     "n","o","p","q","r","s","t","u","v","w","x","y","z",
     "0","1","2","3","4","5","6","7","8","9","-","_" >>

\* value of a symbol in the decode table; 255 marks a byte outside the alphabet
INVALID_VALUE == 255

SymVal(c) ==
  IF \E i \in 1..Len(Alphabet) : Alphabet[i] = c
  THEN (CHOOSE i \in 1..Len(Alphabet) : Alphabet[i] = c) - 1
  ELSE INVALID_VALUE

\* [0; 16]
ZeroId == [i \in 1..IdLen |-> 0]

\* Engine::encode of a byte sequence: 3 bytes -> 4 symbols, a tail of 1 byte ->
\* 2 symbols, a tail of 2 bytes -> 3 symbols, no padding.
RECURSIVE EncodeFrom(_, _)
EncodeFrom(b, i) ==
  LET n == Len(b) - i + 1 IN
  IF n <= 0 THEN << >>
  ELSE IF n = 1 THEN
    << Alphabet[(b[i] \div 4) + 1],
       Alphabet[((b[i] % 4) * 16) + 1] >>
  ELSE IF n = 2 THEN
    << Alphabet[(b[i] \div 4) + 1],
       Alphabet[((b[i] % 4) * 16) + (b[i+1] \div 16) + 1],
       Alphabet[((b[i+1] % 16) * 4) + 1] >>
  ELSE
    << Alphabet[(b[i] \div 4) + 1],
       Alphabet[((b[i] % 4) * 16) + (b[i+1] \div 16) + 1],
       Alphabet[((b[i+1] % 16) * 4) + (b[i+2] \div 64) + 1],
       Alphabet[(b[i+2] % 64) + 1] >> \o EncodeFrom(b, i + 3)

\* impl From<&SessionId> for String
encode(id) == EncodeFrom(id, 1)

\* the bytes the symbol values v[i..] stand for (complete quads and the tail)
RECURSIVE DecodeFrom(_, _)
DecodeFrom(v, i) ==
  LET n == Len(v) - i + 1 IN
  IF n <= 1 THEN << >>
  ELSE IF n = 2 THEN
    << (v[i] * 4) + (v[i+1] \div 16) >>
  ELSE IF n = 3 THEN
    << (v[i] * 4) + (v[i+1] \div 16),
       ((v[i+1] % 16) * 16) + (v[i+2] \div 4) >>
  ELSE
    << (v[i] * 4) + (v[i+1] \div 16),
       ((v[i+1] % 16) * 16) + (v[i+2] \div 4),
       ((v[i+2] % 4) * 64) + v[i+3] >> \o DecodeFrom(v, i + 4)

\* the bits of the last symbol that belong to no output byte
TrailingBits(v) ==
  LET r == Len(v) % 4 IN
  IF r = 2 THEN v[Len(v)] % 16
  ELSE IF r = 3 THEN v[Len(v)] % 4
  ELSE 0

\* decode_slice as it would be with the conservative length estimate (every
\* started quad counted as 3 bytes) checked against the output before decoding
decode_slice_conservative(value, output) ==
  LET v     == [i \in 1..Len(value) |-> SymVal(value[i])]
      bytes == DecodeFrom(v, 1)
  IN
  IF \/ \E i \in 1..Len(v) : v[i] = INVALID_VALUE
     \/ Len(v) % 4 = 1
     \/ TrailingBits(v) # 0
     \/ ((Len(v) + 3) \div 4) * 3 > Len(output)
    THEN [ok |-> FALSE, len |-> 0, out |-> output]
  ELSE [ok  |-> TRUE,
        len |-> Len(bytes),
        out |-> [i \in 1..Len(output) |->
                   IF i <= Len(bytes) THEN bytes[i] ELSE output[i]]]

\* decode_slice as it would be if the symbols after the last complete quad
\* were dropped
decode_slice_no_tail(value, output) ==
  LET v     == [i \in 1..Len(value) |-> SymVal(value[i])]
      bytes == DecodeFrom(SubSeq(v, 1, Len(v) - (Len(v) % 4)), 1)
  IN
  IF \/ \E i \in 1..Len(v) : v[i] = INVALID_VALUE
     \/ Len(v) % 4 = 1
     \/ TrailingBits(v) # 0
     \/ Len(bytes) > Len(output)
    THEN [ok |-> FALSE, len |-> 0, out |-> output]
  ELSE [ok  |-> TRUE,
        len |-> Len(bytes),
        out |-> [i \in 1..Len(output) |->
                   IF i <= Len(bytes) THEN bytes[i] ELSE output[i]]]

\* Engine::decode_slice(value, &mut output): Err on a byte outside the alphabet
\* (padding included), on a length that is 1 mod 4, on non-zero trailing bits,
\* and when the decoded bytes do not fit the output; otherwise Ok(n) with the
\* first n bytes of the output written and the rest left as they were.
decode_slice(value, output) ==
  LET v     == [i \in 1..Len(value) |-> SymVal(value[i])]
      bytes == DecodeFrom(v, 1)
  IN
  IF \E i \in 1..Len(v) : v[i] = INVALID_VALUE
    THEN [ok |-> FALSE, len |-> 0, out |-> output]
  ELSE IF Len(v) % 4 = 1
    THEN [ok |-> FALSE, len |-> 0, out |-> output]
  ELSE IF TrailingBits(v) # 0
    THEN [ok |-> FALSE, len |-> 0, out |-> output]
  ELSE IF Len(bytes) > Len(output)
    THEN [ok |-> FALSE, len |-> 0, out |-> output]
  ELSE [ok  |-> TRUE,
        len |-> Len(bytes),
        out |-> [i \in 1..Len(output) |->
                   IF i <= Len(bytes) THEN bytes[i] ELSE output[i]]]

\* impl TryFrom<&str> for SessionId: the buffer starts as [0; 16] and the
\* number of bytes decode_slice reports is ignored.
try_from(value) ==
  LET r == decode_slice(value, ZeroId) IN
  IF r.ok THEN [ok |-> TRUE, id |-> r.out]
  ELSE [ok |-> FALSE, id |-> ZeroId]

(***************************************************************************)
(* Bounds and inputs                                                       *)
(***************************************************************************)

\* number of requests in flight at a time (each handled by its own task); a
\* task that has returned makes room for a later request
NumProcs == 2

\* number of sessions ever created
MaxSessions == 2

Procs == 1..NumProcs

\* values ring::rand::generate may return (any 16 bytes; two of them here, so
\* that two creations may also draw the same identifier)
IdA == << 1, 35, 69, 103, 137, 171, 205, 239, 16, 50, 84, 118, 152, 186, 220, 254 >>
IdB == << 251, 255, 190, 0, 0, 0, 0, 0, 0, 0, 0, 0, 0, 0, 0, 128 >>
GenIds == { IdA, IdB }

Empty == << >>
BadChars == << "!", "!" >>

\* session_id strings a client may send
StrInputs == { encode(IdA), encode(IdB), Empty, BadChars }

\* SessionId::try_from of every string a client may send
Decoded == [s \in StrInputs |-> try_from(s)]

\* String::from(&session_id) of every identifier that may be drawn
Encoded == [id \in GenIds |-> encode(id)]

Users == { "alice", "bob" }
Passwords == { "pw" }

\* the passwords of the same requests in a second run
TwinPasswords == { "pw", "guess" }

(***************************************************************************)
(* tokio::sync::RwLock: shared/exclusive, waiters served in FIFO order      *)
(***************************************************************************)

NewLock == [readers |-> {}, writer |-> {}, waiters |-> << >>]

Holds(l, p) == p \in l.readers \cup l.writer

\* hand the lock to the waiters at the head of the queue that can take it
RECURSIVE Grant(_)
Grant(l) ==
  IF l.waiters = << >> \/ l.writer # {} THEN l
  ELSE LET h == Head(l.waiters) IN
    IF h.write
    THEN IF l.readers = {}
         THEN [l EXCEPT !.writer = {h.proc}, !.waiters = Tail(@)]
         ELSE l
    ELSE Grant([l EXCEPT !.readers = @ \cup {h.proc}, !.waiters = Tail(@)])

\* lock.read() as it would be on a mutex: a reader waits for readers too
PollRead_exclusive(l, p) ==
  IF l.writer = {} /\ l.readers = {} /\ l.waiters = << >>
  THEN [l EXCEPT !.readers = @ \cup {p}]
  ELSE [l EXCEPT !.waiters = Append(@, [proc |-> p, write |-> FALSE])]

\* first poll of lock.read(): taken at once when no writer holds or waits
PollRead(l, p) ==
  IF l.writer = {} /\ l.waiters = << >>
  THEN [l EXCEPT !.readers = @ \cup {p}]
  ELSE [l EXCEPT !.waiters = Append(@, [proc |-> p, write |-> FALSE])]

\* first poll of lock.write(): taken at once when nobody holds or waits
PollWrite(l, p) ==
  IF l.writer = {} /\ l.readers = {} /\ l.waiters = << >>
  THEN [l EXCEPT !.writer = {p}]
  ELSE [l EXCEPT !.waiters = Append(@, [proc |-> p, write |-> TRUE])]

\* drop of a guard as it would be if it woke nobody
Release_nowake(l, p) ==
  [l EXCEPT !.readers = @ \ {p}, !.writer = @ \ {p}]

\* drop of a guard
Release(l, p) ==
  Grant([l EXCEPT !.readers = @ \ {p}, !.writer = @ \ {p}])

(***************************************************************************)
(* State                                                                   *)
(***************************************************************************)

VARIABLES
  sessions,       \* AppState.sessions: the BTreeMap SessionId -> Arc (index of heap)
  sessions_lock,  \* the RwLock around the map
  heap,           \* the Session inside every Arc<RwLock<Session>> allocated so far
  heap_lock,      \* the RwLock of every Arc<RwLock<Session>>
  pc,             \* where each request's handler stands
  req,            \* the request: operation and form / query fields
  local,          \* the handler's locals session_id and session
  resp,           \* the response, once the handler has returned
  successes,      \* history: per session, the 200 responses of authenticate so far
  codec,          \* a call of the codec on its own: inputs, position, results
  twin            \* a second run of the same requests with passwords of its own

server_vars ==
  << sessions, sessions_lock, heap, heap_lock, pc, req, local, resp, successes, twin >>

vars ==
  << sessions, sessions_lock, heap, heap_lock, pc, req, local, resp, successes,
     codec, twin >>

\* Option<String>: None is << >>, Some(u) is << u >>
None == << >>
Some(u) == << u >>

\* Session { user: None, description: "Some session...", authenticated: false }
NewSession ==
  [user |-> None, description |-> "Some session...", authenticated |-> FALSE]

NoSession == [user |-> None, description |-> "", authenticated |-> FALSE]
NoReq == [op |-> "none", session_id |-> << >>, user |-> "", password |-> ""]
NoLocal == [session_id |-> ZeroId, session |-> 0]
NoResp == [status |-> 0, kind |-> "none", id |-> << >>, session |-> NoSession]

Response(status, kind, id, s) ==
  [status |-> status, kind |-> kind, id |-> id, session |-> s]

\* no codec call under way
CodecOff ==
  [pc |-> "off", id |-> ZeroId, value |-> << >>, decoded |-> [ok |-> FALSE, id |-> ZeroId]]

\* the second run before its first request: AppState::new()
TwinStart ==
  [sessions |-> << >>,
   heap     |-> << >>,
   pc       |-> [p \in Procs |-> "idle"],
   req      |-> [p \in Procs |-> NoReq],
   local    |-> [p \in Procs |-> NoLocal],
   resp     |-> [p \in Procs |-> NoResp]]

\* AppState::new() and no request yet
ServerInit ==
  /\ sessions = << >>
  /\ sessions_lock = NewLock
  /\ heap = << >>
  /\ heap_lock = << >>
  /\ pc = [p \in Procs |-> "idle"]
  /\ req = [p \in Procs |-> NoReq]
  /\ local = [p \in Procs |-> NoLocal]
  /\ resp = [p \in Procs |-> NoResp]
  /\ successes = << >>
  /\ twin = TwinStart

Init ==
  /\ ServerInit
  /\ codec = CodecOff

\* task p has no request, or has returned the response of its last one
Free(p) == pc[p] \in { "idle", "done" }

\* a new request goes to a free task
Arrives(p) == Free(p)

\* insert as it would be if it rebuilt the map from the new entry alone
insert_only(m, k, v) ==
  [x \in {k} |-> v]

\* insert as it would be with entry(k).or_insert(v): a key already present
\* keeps its value
insert_if_absent(m, k, v) ==
  [x \in DOMAIN m \cup {k} |-> IF x \in DOMAIN m THEN m[x] ELSE v]

\* BTreeMap::insert: a key already present gets the new value
insert(m, k, v) ==
  [x \in DOMAIN m \cup {k} |-> IF x = k THEN v ELSE m[x]]

\* get as it would be with a range lookup: a missing key yields a neighbour
get_nearest(m, k) ==
  IF k \in DOMAIN m THEN m[k]
  ELSE IF DOMAIN m # {} THEN m[CHOOSE x \in DOMAIN m : TRUE]
  ELSE 0

\* BTreeMap::get(..).and_then(|x| Some(x.clone())): 0 stands for None
get(m, k) == IF k \in DOMAIN m THEN m[k] ELSE 0

(***************************************************************************)
(* post_new_session                                                        *)
(***************************************************************************)

\* lines 66-78: draw the identifier (the rng lock is only ever read-locked, so
\* it never waits), allocate the session, first poll of sessions.write()
post_new_session_begin(p) ==
  /\ Arrives(p)
  /\ Len(heap) < MaxSessions
  /\ \E id \in GenIds :
       local' = [local EXCEPT ![p] = [session_id |-> id, session |-> Len(heap) + 1]]
  /\ req' = [req EXCEPT ![p] = [NoReq EXCEPT !.op = "new_session"]]
  /\ resp' = [resp EXCEPT ![p] = NoResp]
  /\ heap' = Append(heap, NewSession)
  /\ heap_lock' = Append(heap_lock, NewLock)
  /\ successes' = Append(successes, 0)
  /\ sessions_lock' = PollWrite(sessions_lock, p)
  /\ pc' = [pc EXCEPT ![p] = "ns_insert"]
  /\ UNCHANGED sessions

\* lines 79-86: insert under the write guard, drop the guard, respond
post_new_session_insert(p) ==
  /\ pc[p] = "ns_insert"
  /\ p \in sessions_lock.writer
  /\ sessions' = insert(sessions, local[p].session_id, local[p].session)
  /\ sessions_lock' = Release(sessions_lock, p)
  /\ resp' = [resp EXCEPT ![p] =
                Response(200, "id_base64", Encoded[local[p].session_id], NoSession)]
  /\ pc' = [pc EXCEPT ![p] = "done"]
  /\ UNCHANGED << heap, heap_lock, req, local, successes >>

(***************************************************************************)
(* post_authenticate                                                       *)
(***************************************************************************)

\* authenticate as it would be without the test of line 120
authenticate_nocheck(s, form) ==
  [resp    |-> Response(200, "success", form.session_id, NoSession),
   session |-> [s EXCEPT !.authenticated = TRUE]]

\* authenticate as it would be if the user were stored before the test
authenticate_overwrite(s, form) ==
  IF s.authenticated
  THEN [resp    |-> Response(400, "already_authenticated", form.session_id, NoSession),
        session |-> [s EXCEPT !.user = Some(form.user)]]
  ELSE [resp    |-> Response(200, "success", form.session_id, NoSession),
        session |-> [s EXCEPT !.authenticated = TRUE]]

\* authenticate as it would be if a second call logged the session out
authenticate_toggle(s, form) ==
  IF s.authenticated
  THEN [resp    |-> Response(400, "already_authenticated", form.session_id, NoSession),
        session |-> [s EXCEPT !.authenticated = FALSE, !.user = None]]
  ELSE [resp    |-> Response(200, "success", form.session_id, NoSession),
        session |-> [s EXCEPT !.authenticated = TRUE]]

\* authenticate as it would be if it compared the password with a stored one
authenticate_password(s, form) ==
  IF form.password # "pw"
  THEN [resp    |-> Response(401, "bad_password", form.session_id, NoSession),
        session |-> s]
  ELSE IF s.authenticated
  THEN [resp    |-> Response(400, "already_authenticated", form.session_id, NoSession),
        session |-> s]
  ELSE [resp    |-> Response(200, "success", form.session_id, NoSession),
        session |-> [s EXCEPT !.authenticated = TRUE]]

\* authenticate as it would be if it also rewrote the description
authenticate_redescribe(s, form) ==
  IF s.authenticated
  THEN [resp    |-> Response(400, "already_authenticated", form.session_id, NoSession),
        session |-> s]
  ELSE [resp    |-> Response(200, "success", form.session_id, NoSession),
        session |-> [s EXCEPT !.authenticated = TRUE,
                              !.description = "Authenticated session"]]

\* lines 120-130 on session s: the response the handler is bound for, and the
\* session after the test and the assignment of line 130
authenticate(s, form) ==
  IF s.authenticated
  THEN [resp    |-> Response(400, "already_authenticated", form.session_id, NoSession),
        session |-> s]
  ELSE [resp    |-> Response(200, "success", form.session_id, NoSession),
        session |-> [s EXCEPT !.authenticated = TRUE]]

\* lines 100-112: decode the identifier; malformed -> 400, else first poll of
\* sessions.read()
post_authenticate_begin(p) ==
  /\ Arrives(p)
  /\ \E sid \in StrInputs, user \in Users, password \in Passwords :
       LET session_id == Decoded[sid] IN
       /\ req' = [req EXCEPT ![p] = [op |-> "authenticate", session_id |-> sid,
                                     user |-> user, password |-> password]]
       /\ IF ~session_id.ok
          THEN /\ resp' = [resp EXCEPT ![p] =
                             Response(400, "malformed", << >>, NoSession)]
               /\ local' = [local EXCEPT ![p] = NoLocal]
               /\ pc' = [pc EXCEPT ![p] = "done"]
               /\ UNCHANGED sessions_lock
          ELSE /\ local' = [local EXCEPT ![p] =
                              [session_id |-> session_id.id, session |-> 0]]
               /\ resp' = [resp EXCEPT ![p] = NoResp]
               /\ sessions_lock' = PollRead(sessions_lock, p)
               /\ pc' = [pc EXCEPT ![p] = "auth_get"]
  /\ UNCHANGED << sessions, heap, heap_lock, successes >>

\* post_authenticate_get as it would be if the map's read guard lived to the
\* end of the handler
post_authenticate_get_keep(p) ==
  /\ pc[p] = "auth_get"
  /\ p \in sessions_lock.readers
  /\ LET session == get(sessions, local[p].session_id) IN
       /\ local' = [local EXCEPT ![p].session = session]
       /\ IF session = 0
          THEN /\ resp' = [resp EXCEPT ![p] =
                             Response(400, "not_found", req[p].session_id, NoSession)]
               /\ pc' = [pc EXCEPT ![p] = "done"]
               /\ sessions_lock' = Release(sessions_lock, p)
          ELSE /\ pc' = [pc EXCEPT ![p] = "auth_lock"]
               /\ UNCHANGED << resp, sessions_lock >>
  /\ UNCHANGED << sessions, heap, heap_lock, req, successes >>

\* lines 113-116 and 142-149: look the identifier up under the read guard, drop
\* the guard; None -> 400 "doesn't exist"
post_authenticate_get(p) ==
  /\ pc[p] = "auth_get"
  /\ p \in sessions_lock.readers
  /\ LET session == get(sessions, local[p].session_id) IN
       /\ local' = [local EXCEPT ![p].session = session]
       /\ IF session = 0
          THEN /\ resp' = [resp EXCEPT ![p] =
                             Response(400, "not_found", req[p].session_id, NoSession)]
               /\ pc' = [pc EXCEPT ![p] = "done"]
          ELSE /\ pc' = [pc EXCEPT ![p] = "auth_lock"]
               /\ UNCHANGED resp
  /\ sessions_lock' = Release(sessions_lock, p)
  /\ UNCHANGED << sessions, heap, heap_lock, req, successes >>

\* line 119: first poll of session.write()
post_authenticate_lock(p) ==
  /\ pc[p] = "auth_lock"
  /\ heap_lock' = [heap_lock EXCEPT ![local[p].session] = PollWrite(@, p)]
  /\ pc' = [pc EXCEPT ![p] = "auth_apply"]
  /\ UNCHANGED << sessions, sessions_lock, heap, req, local, resp, successes >>

\* the history counts up to this many responses
MaxCount == 2

\* line 131: session_locked.user = Some(form.user)
set_user(s, form) == [s EXCEPT !.user = Some(form.user)]

\* post_authenticate_apply as it would be if it did not await the write guard
post_authenticate_apply_unlocked(p) ==
  /\ pc[p] = "auth_apply"
  /\ LET r == authenticate(heap[local[p].session], req[p]) IN
       /\ heap' = [heap EXCEPT ![local[p].session] = r.session]
       /\ IF r.resp.status = 200
          THEN /\ pc' = [pc EXCEPT ![p] = "auth_user"]
               /\ UNCHANGED << resp, heap_lock >>
          ELSE /\ resp' = [resp EXCEPT ![p] = r.resp]
               /\ heap_lock' = [heap_lock EXCEPT ![local[p].session] = Release(@, p)]
               /\ pc' = [pc EXCEPT ![p] = "done"]
  /\ UNCHANGED << sessions, sessions_lock, req, local, successes >>

\* lines 120-130: under the session's write guard, reject (respond, drop the
\* guard) or set authenticated and go on, the guard still held
post_authenticate_apply(p) ==
  /\ pc[p] = "auth_apply"
  /\ p \in heap_lock[local[p].session].writer
  /\ LET r == authenticate(heap[local[p].session], req[p]) IN
       /\ heap' = [heap EXCEPT ![local[p].session] = r.session]
       /\ IF r.resp.status = 200
          THEN /\ pc' = [pc EXCEPT ![p] = "auth_user"]
               /\ UNCHANGED << resp, heap_lock >>
          ELSE /\ resp' = [resp EXCEPT ![p] = r.resp]
               /\ heap_lock' = [heap_lock EXCEPT ![local[p].session] = Release(@, p)]
               /\ pc' = [pc EXCEPT ![p] = "done"]
  /\ UNCHANGED << sessions, sessions_lock, req, local, successes >>

\* lines 131-141: set the user, respond 200, drop the guard
post_authenticate_user(p) ==
  /\ pc[p] = "auth_user"
  /\ heap' = [heap EXCEPT ![local[p].session] = set_user(@, req[p])]
  /\ resp' = [resp EXCEPT ![p] =
                Response(200, "success", req[p].session_id, NoSession)]
  /\ successes' = [successes EXCEPT ![local[p].session] =
                      IF @ < MaxCount THEN @ + 1 ELSE @]
  /\ heap_lock' = [heap_lock EXCEPT ![local[p].session] = Release(@, p)]
  /\ pc' = [pc EXCEPT ![p] = "done"]
  /\ UNCHANGED << sessions, sessions_lock, req, local >>

(***************************************************************************)
(* get_session_state                                                       *)
(***************************************************************************)

\* lines 162-177: decode the identifier; malformed -> 400, else first poll of
\* sessions.read()
get_session_state_begin(p) ==
  /\ Arrives(p)
  /\ \E sid \in StrInputs :
       LET session_id == Decoded[sid] IN
       /\ req' = [req EXCEPT ![p] = [NoReq EXCEPT !.op = "session_state",
                                                  !.session_id = sid]]
       /\ IF ~session_id.ok
          THEN /\ resp' = [resp EXCEPT ![p] =
                             Response(400, "malformed", << >>, NoSession)]
               /\ local' = [local EXCEPT ![p] = NoLocal]
               /\ pc' = [pc EXCEPT ![p] = "done"]
               /\ UNCHANGED sessions_lock
          ELSE /\ local' = [local EXCEPT ![p] =
                              [session_id |-> session_id.id, session |-> 0]]
               /\ resp' = [resp EXCEPT ![p] = NoResp]
               /\ sessions_lock' = PollRead(sessions_lock, p)
               /\ pc' = [pc EXCEPT ![p] = "state_get"]
  /\ UNCHANGED << sessions, heap, heap_lock, successes >>

\* lines 178-180 and 189-196: look the identifier up under the read guard, drop
\* the guard; None -> 400 "doesn't exist"
get_session_state_get(p) ==
  /\ pc[p] = "state_get"
  /\ p \in sessions_lock.readers
  /\ LET session == get(sessions, local[p].session_id) IN
       /\ local' = [local EXCEPT ![p].session = session]
       /\ IF session = 0
          THEN /\ resp' = [resp EXCEPT ![p] =
                             Response(400, "not_found", req[p].session_id, NoSession)]
               /\ pc' = [pc EXCEPT ![p] = "done"]
          ELSE /\ pc' = [pc EXCEPT ![p] = "state_lock"]
               /\ UNCHANGED resp
  /\ sessions_lock' = Release(sessions_lock, p)
  /\ UNCHANGED << sessions, heap, heap_lock, req, successes >>

\* line 186: first poll of session.read()
get_session_state_lock(p) ==
  /\ pc[p] = "state_lock"
  /\ heap_lock' = [heap_lock EXCEPT ![local[p].session] = PollRead(@, p)]
  /\ pc' = [pc EXCEPT ![p] = "state_read"]
  /\ UNCHANGED << sessions, sessions_lock, heap, req, local, resp, successes >>

\* get_session_state_read as it would be if reading marked the session
get_session_state_read_touch(p) ==
  /\ pc[p] = "state_read"
  /\ p \in heap_lock[local[p].session].readers
  /\ resp' = [resp EXCEPT ![p] =
                Response(200, "state", << >>, heap[local[p].session])]
  /\ heap' = [heap EXCEPT ![local[p].session].description = "read"]
  /\ heap_lock' = [heap_lock EXCEPT ![local[p].session] = Release(@, p)]
  /\ pc' = [pc EXCEPT ![p] = "done"]
  /\ UNCHANGED << sessions, sessions_lock, req, local, successes >>

\* get_session_state_read as it would be if it did not await the read guard
get_session_state_read_unlocked(p) ==
  /\ pc[p] = "state_read"
  /\ resp' = [resp EXCEPT ![p] =
                Response(200, "state", << >>, heap[local[p].session])]
  /\ heap_lock' = [heap_lock EXCEPT ![local[p].session] = Release(@, p)]
  /\ pc' = [pc EXCEPT ![p] = "done"]
  /\ UNCHANGED << sessions, sessions_lock, heap, req, local, successes >>

\* lines 182-188: serialize the session under its read guard, drop the guard
get_session_state_read(p) ==
  /\ pc[p] = "state_read"
  /\ p \in heap_lock[local[p].session].readers
  /\ resp' = [resp EXCEPT ![p] =
                Response(200, "state", << >>, heap[local[p].session])]
  /\ heap_lock' = [heap_lock EXCEPT ![local[p].session] = Release(@, p)]
  /\ pc' = [pc EXCEPT ![p] = "done"]
  /\ UNCHANGED << sessions, sessions_lock, heap, req, local, successes >>

(***************************************************************************)
(* Specification                                                           *)
(***************************************************************************)

Next ==
  /\ \E p \in Procs :
       \/ post_new_session_begin(p)
       \/ post_new_session_insert(p)
       \/ post_authenticate_begin(p)
       \/ post_authenticate_get(p)
       \/ post_authenticate_lock(p)
       \/ post_authenticate_apply(p)
       \/ post_authenticate_user(p)
       \/ get_session_state_begin(p)
       \/ get_session_state_get(p)
       \/ get_session_state_lock(p)
       \/ get_session_state_read(p)
  /\ UNCHANGED << codec, twin >>

Spec == Init /\ [][Next]_vars

\* the steps of the handler of a request that task p has begun
Continue(p) ==
  /\ \/ post_new_session_insert(p)
     \/ post_authenticate_get(p)
     \/ post_authenticate_lock(p)
     \/ post_authenticate_apply(p)
     \/ post_authenticate_user(p)
     \/ get_session_state_get(p)
     \/ get_session_state_lock(p)
     \/ get_session_state_read(p)
  /\ UNCHANGED << codec, twin >>

\* the tokio runtime polls every task that has been woken: a handler whose
\* next step stays possible takes it. (Requests arrive as the clients please.)
FairSpec == Init /\ [][Next]_vars /\ \A p \in Procs : WF_vars(Continue(p))

(***************************************************************************)
(* Two runs side by side: the second run (twin) receives the same requests  *)
(* and takes the same handler steps in the same order on a store of its     *)
(* own; only the password of each authenticate form is chosen anew.         *)
(***************************************************************************)

\* lines 66-78 in the second run, with the identifier the rng drew
twin_new_session_begin(t, p, id) ==
  [t EXCEPT !.heap = Append(@, NewSession),
            !.local[p] = [session_id |-> id, session |-> Len(t.heap) + 1],
            !.req[p] = [NoReq EXCEPT !.op = "new_session"],
            !.resp[p] = NoResp,
            !.pc[p] = "ns_insert"]

\* lines 79-86 in the second run
twin_new_session_insert(t, p) ==
  [t EXCEPT !.sessions = insert(@, t.local[p].session_id, t.local[p].session),
            !.resp[p] = Response(200, "id_base64",
                                 Encoded[t.local[p].session_id], NoSession),
            !.pc[p] = "done"]

\* lines 100-110 / 162-172 in the second run: decode the identifier of the form
twin_begin(t, p, form, next) ==
  LET session_id == Decoded[form.session_id] IN
  IF ~session_id.ok
  THEN [t EXCEPT !.req[p] = form,
                 !.resp[p] = Response(400, "malformed", << >>, NoSession),
                 !.local[p] = NoLocal,
                 !.pc[p] = "done"]
  ELSE [t EXCEPT !.req[p] = form,
                 !.resp[p] = NoResp,
                 !.local[p] = [session_id |-> session_id.id, session |-> 0],
                 !.pc[p] = next]

\* lines 111-116 / 173-180 and the None arms in the second run
twin_get(t, p, next) ==
  LET session == get(t.sessions, t.local[p].session_id) IN
  IF session = 0
  THEN [t EXCEPT !.local[p].session = 0,
                 !.resp[p] = Response(400, "not_found",
                                      t.req[p].session_id, NoSession),
                 !.pc[p] = "done"]
  ELSE [t EXCEPT !.local[p].session = session,
                 !.pc[p] = next]

\* lines 119 / 186 in the second run: the first poll of the session's lock
twin_lock(t, p, next) ==
  [t EXCEPT !.pc[p] = next]

\* lines 120-130 in the second run
twin_authenticate_apply(t, p) ==
  LET r == authenticate(t.heap[t.local[p].session], t.req[p]) IN
  IF r.resp.status = 200
  THEN [t EXCEPT !.heap[t.local[p].session] = r.session,
                 !.pc[p] = "auth_user"]
  ELSE [t EXCEPT !.heap[t.local[p].session] = r.session,
                 !.resp[p] = r.resp,
                 !.pc[p] = "done"]

\* lines 131-141 in the second run
twin_authenticate_user(t, p) ==
  [t EXCEPT !.heap[t.local[p].session] = set_user(@, t.req[p]),
            !.resp[p] = Response(200, "success", t.req[p].session_id, NoSession),
            !.pc[p] = "done"]

\* lines 182-188 in the second run
twin_session_state_read(t, p) ==
  [t EXCEPT !.resp[p] = Response(200, "state", << >>, t.heap[t.local[p].session]),
            !.pc[p] = "done"]

\* both runs take the same step of the same request; a step is possible only
\* while the second run's handler stands where the first one's does
TwinNext ==
  /\ \E p \in Procs :
       /\ twin.pc[p] = pc[p]
       /\ \/ /\ post_new_session_begin(p)
             /\ twin' = twin_new_session_begin(twin, p, local'[p].session_id)
          \/ /\ post_new_session_insert(p)
             /\ twin' = twin_new_session_insert(twin, p)
          \/ /\ post_authenticate_begin(p)
             /\ \E password \in TwinPasswords :
                  twin' = twin_begin(twin, p, [req'[p] EXCEPT !.password = password],
                                     "auth_get")
          \/ /\ post_authenticate_get(p)
             /\ twin' = twin_get(twin, p, "auth_lock")
          \/ /\ post_authenticate_lock(p)
             /\ twin' = twin_lock(twin, p, "auth_apply")
          \/ /\ post_authenticate_apply(p)
             /\ twin' = twin_authenticate_apply(twin, p)
          \/ /\ post_authenticate_user(p)
             /\ twin' = twin_authenticate_user(twin, p)
          \/ /\ get_session_state_begin(p)
             /\ twin' = twin_begin(twin, p, req'[p], "state_get")
          \/ /\ get_session_state_get(p)
             /\ twin' = twin_get(twin, p, "state_lock")
          \/ /\ get_session_state_lock(p)
             /\ twin' = twin_lock(twin, p, "state_read")
          \/ /\ get_session_state_read(p)
             /\ twin' = twin_session_state_read(twin, p)
  /\ UNCHANGED codec

TwinSpec == Init /\ [][TwinNext]_vars

(***************************************************************************)
(* The codec on its own: String::from(&SessionId) and SessionId::try_from   *)
(* applied to sample identifiers and to variations of their encodings       *)
(***************************************************************************)

ByteSamples == { 0, 1, 127, 128, 255 }

\* 16-byte values: one byte b at position k, byte c elsewhere
SampleIds ==
  { [i \in 1..IdLen |-> IF i = k THEN b ELSE c] :
      k \in 1..IdLen, b \in ByteSamples, c \in ByteSamples } \cup GenIds

\* symbols a client may put into a string: in the alphabet, the padding
\* character, and characters of the standard alphabet only
SymSamples == { "A", "B", "Q", "_", "=", "+", "/" }

\* variations of a string: every proper prefix, one more symbol, the first or
\* the last symbol replaced
Mangled(s) ==
  { SubSeq(s, 1, n) : n \in 0..(Len(s) - 1) }
    \cup { Append(s, c) : c \in SymSamples }
    \cup { Append(Append(s, c), d) : c \in {"A"}, d \in {"A", "Q"} }
    \cup { [s EXCEPT ![Len(s)] = c] : c \in SymSamples }
    \cup { [s EXCEPT ![1] = c] : c \in SymSamples }

CodecInit ==
  /\ ServerInit
  /\ \E id \in SampleIds : codec = [CodecOff EXCEPT !.pc = "start", !.id = id]

\* String::from(&id)
codec_encode ==
  /\ codec.pc = "start"
  /\ codec' = [codec EXCEPT !.pc = "encoded", !.value = encode(codec.id)]
  /\ UNCHANGED server_vars

\* the string is altered before it comes back
codec_mangle ==
  /\ codec.pc = "encoded"
  /\ \E s \in Mangled(codec.value) :
       codec' = [codec EXCEPT !.pc = "mangled", !.value = s]
  /\ UNCHANGED server_vars

\* SessionId::try_from(value)
codec_try_from ==
  /\ codec.pc \in { "encoded", "mangled" }
  /\ codec' = [codec EXCEPT !.pc = "decoded", !.decoded = try_from(codec.value)]
  /\ UNCHANGED server_vars

CodecNext ==
  \/ codec_encode
  \/ codec_mangle
  \/ codec_try_from

CodecSpec == CodecInit /\ [][CodecNext]_vars

TypeOK ==
  /\ DOMAIN sessions \subseteq GenIds
  /\ \A k \in DOMAIN sessions : sessions[k] \in 1..Len(heap)
  /\ Len(heap_lock) = Len(heap)
  /\ \A p \in Procs : pc[p] \in { "idle", "ns_insert", "auth_get", "auth_lock",
                                  "auth_apply", "auth_user", "state_get",
                                  "state_lock", "state_read", "done" }

(***************************************************************************)
(* Properties                                                              *)
(***************************************************************************)

Done(p) == pc[p] = "done"

\* the handler of task p returns in this step
Returns(p) == pc[p] # "done" /\ pc'[p] = "done"

\* task p takes a step of a request it has already begun
Steps(p) == pc[p] \notin { "idle", "done" } /\ pc'[p] # pc[p]

\* the request of task p is an authenticate whose lookup found session o
AuthOn(p, o) == req[p].op = "authenticate" /\ local[p].session = o

\* the request of task p is a read-state whose lookup found session o
StateOn(p, o) == req[p].op = "session_state" /\ local[p].session = o

\* an authenticate on session o has gone through: the flag is set and no
\* handler stands between lines 130 and 131 on it
Authenticated(o) ==
  /\ heap[o].authenticated
  /\ \A p \in Procs : ~(pc[p] = "auth_user" /\ local[p].session = o)

Succeeded(p) ==
  /\ Done(p)
  /\ resp[p] = Response(200, "success", req[p].session_id, NoSession)

Rejected(p) ==
  /\ Done(p)
  /\ resp[p] = Response(400, "already_authenticated", req[p].session_id, NoSession)

Malformed(p) ==
  /\ Done(p)
  /\ resp[p] = Response(400, "malformed", << >>, NoSession)

\* s is the unpadded URL-safe base64 text of exactly 16 bytes
Represents16(s) ==
  LET v == [i \in 1..Len(s) |-> SymVal(s[i])] IN
  /\ \A i \in 1..Len(v) : v[i] # INVALID_VALUE
  /\ Len(DecodeFrom(v, 1)) = IdLen
  /\ EncodeFrom(DecodeFrom(v, 1), 1) = s

\* C1: of the authenticate requests made against one session, run in any
\* interleaving, exactly one returns the 200 success response and every other
\* one returns the 400 "already authenticated" error.
C1_ExactlyOneSuccess ==
  \A o \in 1..Len(heap) :
    /\ successes[o] <= 1
    /\ Cardinality({ p \in Procs : AuthOn(p, o) /\ Succeeded(p) }) <= successes[o]
    /\ \A p \in Procs :
         (AuthOn(p, o) /\ Done(p))
         => /\ Succeeded(p) \/ Rejected(p)
            /\ successes[o] = 1

\* two authenticate requests in flight together reached one session: one
\* succeeded, the other was rejected
C1_Witness ==
  \E o \in 1..Len(heap) : \E p, q \in Procs :
    /\ AuthOn(p, o) /\ AuthOn(q, o)
    /\ Succeeded(p) /\ Rejected(q)
    /\ successes[o] = 1

\* C2 as stated: once an authenticate on an identifier has returned 200, an
\* authenticate with the same identifier that returns later gets the 400
\* "already authenticated" error and changes no session.
C2_SecondCallSameIdRejected ==
  [][\A q \in Procs :
       (/\ pc[q] \in { "auth_get", "auth_apply", "auth_user" }
        /\ Returns(q)
        /\ \E p \in Procs : /\ req[p].op = "authenticate"
                            /\ Succeeded(p)
                            /\ req[p].session_id = req[q].session_id)
       => /\ resp'[q] = Response(400, "already_authenticated",
                                 req[q].session_id, NoSession)
          /\ heap' = heap]_vars

\* C2 amended: the first authenticate to reach a session returns 200 and sets
\* authenticated and the supplied user; an authenticate that reaches the same
\* session afterwards (the identifier still resolving to it) returns the 400
\* "already authenticated" error and changes no session.
C2_SecondCallSameSessionRejected ==
  [][\A q \in Procs :
       LET o == local[q].session IN
       /\ (pc[q] = "auth_apply" /\ Steps(q))
          => IF successes[o] >= 1
             THEN /\ pc'[q] = "done"
                  /\ resp'[q] = Response(400, "already_authenticated",
                                         req[q].session_id, NoSession)
                  /\ heap' = heap
             ELSE /\ pc'[q] = "auth_user"
                  /\ heap' = [heap EXCEPT ![o].authenticated = TRUE]
       /\ (pc[q] = "auth_user" /\ Steps(q))
          => /\ successes[o] = 0
             /\ pc'[q] = "done"
             /\ resp'[q] = Response(200, "success", req[q].session_id, NoSession)
             /\ heap' = [heap EXCEPT ![o] =
                           [user |-> Some(req[q].user),
                            description |-> heap[o].description,
                            authenticated |-> TRUE]]]_vars

\* a second authenticate with the same identifier and another user was
\* rejected and the session still carries the first user
C2_Witness ==
  \E o \in 1..Len(heap) : \E p, q \in Procs :
    /\ AuthOn(p, o) /\ AuthOn(q, o)
    /\ req[p].session_id = req[q].session_id
    /\ req[p].user # req[q].user
    /\ Succeeded(p) /\ Rejected(q)
    /\ heap[o].authenticated
    /\ heap[o].user = Some(req[p].user)

\* C3 as stated: once the session an identifier resolves to is authenticated,
\* the session that identifier resolves to is authenticated, with the same
\* user, ever after (what read-state on the identifier reports).
C3_IdentifierStaysAuthenticated ==
  [][\A id \in DOMAIN sessions :
       Authenticated(sessions[id])
       => /\ heap'[sessions'[id]].authenticated
          /\ heap'[sessions'[id]].user = heap[sessions[id]].user]_vars

\* C3 amended: an authenticated session record never changes again; every
\* authenticate that reaches it is rejected and every read-state that reaches
\* it reports authenticated = true with the same user. (An identifier keeps
\* resolving to the record until a create-session draws the identifier again.)
C3_SessionStaysAuthenticated ==
  [][\A o \in 1..Len(heap) :
       /\ heap[o].authenticated => heap'[o].authenticated
       /\ Authenticated(o)
          => /\ heap'[o] = heap[o]
             /\ \A p \in Procs :
               /\ (AuthOn(p, o) /\ pc[p] = "auth_apply" /\ Steps(p))
                    => resp'[p] = Response(400, "already_authenticated",
                                           req[p].session_id, NoSession)
               /\ (StateOn(p, o) /\ pc[p] = "state_read" /\ Returns(p))
                    => /\ resp'[p].status = 200
                       /\ resp'[p].session.authenticated
                       /\ resp'[p].session.user = heap[o].user]_vars

\* a read-state reported an authenticated session with the user of the
\* authenticate that succeeded on it
C3_Witness ==
  \E o \in 1..Len(heap) : \E p, r \in Procs :
    /\ AuthOn(p, o) /\ Succeeded(p)
    /\ StateOn(r, o) /\ Done(r)
    /\ resp[r].status = 200
    /\ resp[r].session.authenticated
    /\ resp[r].session.user = Some(req[p].user)

\* C4: once create-session has returned an identifier, the lookup of a
\* read-state on that identifier finds a session (no not-found error), and the
\* read-state reports authenticated = false, user = null and the description
\* "Some session..." unless an authenticate has succeeded on that session.
C4_CreatedSessionIsFound ==
  [][/\ \A r \in Procs :
          (/\ pc[r] = "state_get"
           /\ Steps(r)
           /\ \E c \in Procs : /\ req[c].op = "new_session"
                               /\ Done(c)
                               /\ resp[c].id = req[r].session_id)
          => /\ pc'[r] = "state_lock"
             /\ local'[r].session \in 1..Len(heap)
     /\ \A r \in Procs :
          (pc[r] = "state_read" /\ Returns(r))
          => /\ resp'[r].status = 200
             /\ resp'[r].kind = "state"
             /\ successes[local[r].session] = 0
                  => resp'[r].session =
                       [user |-> None, description |-> "Some session...",
                        authenticated |-> FALSE]]_vars

\* a read-state on an identifier that a create-session returned reported the
\* fresh session
C4_Witness ==
  \E c, r \in Procs :
    /\ req[c].op = "new_session" /\ Done(c)
    /\ req[r].op = "session_state" /\ Done(r)
    /\ resp[c].id = req[r].session_id
    /\ local[r].session = local[c].session
    /\ resp[r] = Response(200, "state", << >>,
                          [user |-> None, description |-> "Some session...",
                           authenticated |-> FALSE])

\* C5: try_from rejects every string that is not the text of exactly 16 bytes.
C5_DecodeRejects ==
  (codec.pc = "decoded" /\ ~Represents16(codec.value)) => ~codec.decoded.ok

\* C6: authenticate and read-state answer every string that is not the text
\* of exactly 16 bytes with the 400 "malformed session id" error, without
\* looking anything up.
C6_MalformedRejected ==
  \A p \in Procs :
    (/\ req[p].op \in { "authenticate", "session_state" }
     /\ pc[p] # "idle"
     /\ ~Represents16(req[p].session_id))
    => /\ Malformed(p)
       /\ local[p] = NoLocal

\* C7: for every 16-byte identifier v, try_from(String::from(v)) is Ok(v).
C7_RoundTrip ==
  (codec.pc = "decoded" /\ codec.value = encode(codec.id))
  => codec.decoded = [ok |-> TRUE, id |-> codec.id]

\* the encoding of an identifier that uses both "-" and "_" was decoded
C7_Witness ==
  /\ codec.pc = "decoded"
  /\ codec.id = IdB
  /\ codec.value = encode(IdB)
  /\ codec.decoded = [ok |-> TRUE, id |-> IdB]

\* C8: an authenticate whose well-formed identifier is not a key of the store
\* returns the 400 "doesn't exist" error and leaves the map, every session and
\* the number of sessions as they were.
C8_UnknownIdNotFound ==
  [][\A p \in Procs :
       (/\ pc[p] = "auth_get"
        /\ Steps(p)
        /\ local[p].session_id \notin DOMAIN sessions)
       => /\ pc'[p] = "done"
          /\ resp'[p] = Response(400, "not_found", req[p].session_id, NoSession)
          /\ sessions' = sessions
          /\ heap' = heap]_vars

\* an authenticate on a well-formed identifier got the not-found error while
\* the store held another session
C8_Witness ==
  \E p \in Procs :
    /\ req[p].op = "authenticate"
    /\ Done(p)
    /\ Represents16(req[p].session_id)
    /\ resp[p] = Response(400, "not_found", req[p].session_id, NoSession)
    /\ DOMAIN sessions # {}
    /\ local[p].session_id \notin DOMAIN sessions

\* C9: no step of a read-state request changes the map or any session.
C9_ReadStateReadOnly ==
  [][\A p \in Procs :
       (pc'[p] # pc[p] /\ req'[p].op = "session_state")
       => /\ sessions' = sessions
          /\ heap' = heap]_vars

\* a read-state returned a session's state and another one a not-found error
C9_Witness ==
  \E p, q \in Procs :
    /\ req[p].op = "session_state" /\ Done(p) /\ resp[p].kind = "state"
    /\ req[q].op = "session_state" /\ Done(q) /\ resp[q].kind = "not_found"
    /\ heap[local[p].session].authenticated

\* C10: no step removes a key from the store, and no step of authenticate or
\* read-state adds one.
C10_StoreOnlyGrows ==
  [][/\ DOMAIN sessions \subseteq DOMAIN sessions'
     /\ \A p \in Procs :
          (pc'[p] # pc[p] /\ req'[p].op \in { "authenticate", "session_state" })
          => DOMAIN sessions' = DOMAIN sessions]_vars

\* both identifiers are keys of the store after two creations, with an
\* authenticate and a read-state returned since
C10_Witness ==
  /\ DOMAIN sessions = GenIds
  /\ \E p, q \in Procs :
       /\ req[p].op = "authenticate" /\ Done(p)
       /\ req[q].op = "session_state" /\ Done(q)

\* C11: the password is never checked. Of two runs that receive the same
\* requests and take the same steps in the same order, and differ only in the
\* passwords of the authenticate forms, every response, the map, every session
\* and every handler's position are the same in every state.
C11_PasswordNeverChecked ==
  /\ \A p \in Procs : twin.req[p] = [req[p] EXCEPT !.password = twin.req[p].password]
  /\ twin.resp = resp
  /\ twin.sessions = sessions
  /\ twin.heap = heap
  /\ twin.local = local
  /\ twin.pc = pc

\* two authenticate requests on one session have returned, one accepted and
\* one rejected, each with a password in the second run that differs from
\* the first run's, and the second run gave the same two responses
C11_Witness ==
  \E o \in 1..Len(heap) : \E p, q \in Procs :
    /\ AuthOn(p, o) /\ Succeeded(p)
    /\ AuthOn(q, o) /\ Rejected(q)
    /\ twin.req[p].password # req[p].password
    /\ twin.req[q].password # req[q].password
    /\ twin.resp[p] = resp[p]
    /\ twin.resp[q] = resp[q]
    /\ twin.heap[o] = heap[o]

\* task q waits in the queue of lock l
Waits(l, q) == \E i \in 1..Len(l.waiters) : l.waiters[i].proc = q

\* the tasks q waits for at lock l: its holders and the waiters ahead of q
Before(l, q) ==
  IF Waits(l, q)
  THEN LET n == CHOOSE i \in 1..Len(l.waiters) : l.waiters[i].proc = q IN
       l.readers \cup l.writer \cup { l.waiters[i].proc : i \in 1..(n - 1) }
  ELSE {}

\* the tasks that stand between q and the lock it has asked for
Blockers(q) ==
  Before(sessions_lock, q)
    \cup UNION { Before(heap_lock[o], q) : o \in 1..Len(heap_lock) }

\* the next step of task q's handler can be taken
Ready(q) ==
  CASE pc[q] = "ns_insert" -> q \in sessions_lock.writer
    [] pc[q] \in { "auth_get", "state_get" } -> q \in sessions_lock.readers
    [] pc[q] = "auth_apply" -> q \in heap_lock[local[q].session].writer
    [] pc[q] = "state_read" -> q \in heap_lock[local[q].session].readers
    [] OTHER -> TRUE

\* task q has asked for the lock of session o
AsksFor(q, o) ==
  /\ pc[q] \in { "auth_apply", "auth_user", "state_read" }
  /\ local[q].session = o

\* C12: no handler holds the map's lock while it holds or waits for a
\* session's lock; a handler that holds the write lock of session o holds and
\* awaits no other lock, and every other handler that has not asked for o's
\* lock (a create, a lookup, a read-state or an authenticate on another
\* session) can take its next step or waits for other tasks only.
C12_LockIndependence ==
  /\ \A p \in Procs :
       Holds(sessions_lock, p)
       => \A o \in 1..Len(heap_lock) :
            ~Holds(heap_lock[o], p) /\ ~Waits(heap_lock[o], p)
  /\ \A p \in Procs : \A o \in 1..Len(heap_lock) :
       p \in heap_lock[o].writer
       => /\ ~Holds(sessions_lock, p) /\ ~Waits(sessions_lock, p)
          /\ \A b \in 1..Len(heap_lock) \ {o} :
               ~Holds(heap_lock[b], p) /\ ~Waits(heap_lock[b], p)
          /\ \A q \in Procs \ {p} :
               ~AsksFor(q, o)
               => \/ Ready(q)
                  \/ Blockers(q) # {} /\ p \notin Blockers(q)

\* while an authenticate holds the write lock of one session between lines
\* 130 and 131, a read-state holds the read lock of another session
C12_Witness ==
  \E p, q \in Procs : \E o, b \in 1..Len(heap_lock) :
    /\ o # b
    /\ pc[p] = "auth_user" /\ p \in heap_lock[o].writer
    /\ pc[q] = "state_read" /\ q \in heap_lock[b].readers

\* task p holds no lock and waits for none
HoldsNothing(p) ==
  /\ ~Holds(sessions_lock, p) /\ ~Waits(sessions_lock, p)
  /\ \A o \in 1..Len(heap_lock) : ~Holds(heap_lock[o], p) /\ ~Waits(heap_lock[o], p)

\* while requests are under way, the handler of one of them can take a step
NoDeadlock ==
  (\E p \in Procs : ~Free(p)) => \E p \in Procs : ~Free(p) /\ Ready(p)

\* C13: under fair scheduling and FIFO lock granting no reachable state is a
\* deadlock, every request that has begun eventually has its response, and a
\* handler that has responded holds no lock and waits for none.
C13_DeadlockFreeAndComplete ==
  /\ []NoDeadlock
  /\ [](\A p \in Procs : Free(p) => HoldsNothing(p))
  /\ \A p \in Procs : (~Free(p)) ~> Done(p)

\* a handler waits in the queue of a session's lock behind an authenticate
\* that stands between lines 130 and 131
C13_Witness ==
  \E p, q \in Procs : \E o \in 1..Len(heap_lock) :
    /\ pc[p] = "auth_user" /\ p \in heap_lock[o].writer
    /\ Waits(heap_lock[o], q)

\* task p alone holds lock l, in write mode
HoldsExclusively(l, p) == l.writer = {p} /\ l.readers = {}

\* C14: the map changes only in a step of a handler that holds the map's
\* write lock, and a session's fields change only in a step of a handler that
\* holds that session's write lock; while a write lock is held, no other
\* handler holds the same lock in either mode.
C14_MutationUnderWriteLock ==
  [][/\ sessions' # sessions
        => \E p \in Procs : /\ HoldsExclusively(sessions_lock, p)
                            /\ pc[p] = "ns_insert"
                            /\ pc'[p] # pc[p]
     /\ \A o \in 1..Len(heap) :
          heap'[o] # heap[o]
          => \E p \in Procs : /\ HoldsExclusively(heap_lock[o], p)
                              /\ AuthOn(p, o)
                              /\ pc[p] \in { "auth_apply", "auth_user" }
                              /\ pc'[p] # pc[p]
     /\ Cardinality(sessions_lock.writer) <= 1
     /\ sessions_lock.writer # {} => sessions_lock.readers = {}
     /\ \A o \in 1..Len(heap_lock) :
          /\ Cardinality(heap_lock[o].writer) <= 1
          /\ heap_lock[o].writer # {} => heap_lock[o].readers = {}]_vars

\* an authenticate has set authenticated under the session's write lock and
\* has yet to set the user, while a read-state waits for the same lock
C14_Witness ==
  \E p, q \in Procs : \E o \in 1..Len(heap) :
    /\ pc[p] = "auth_user" /\ AuthOn(p, o)
    /\ HoldsExclusively(heap_lock[o], p)
    /\ heap[o].authenticated /\ heap[o].user = None
    /\ pc[q] = "state_read" /\ StateOn(q, o)
    /\ Waits(heap_lock[o], q)

\* C15: when create-session has drawn an identifier that is already a key,
\* its insert returns 200 like any other, the key then maps to the new
\* session, which is unauthenticated, and nothing else changes: the old
\* record and every other handler's handle stay as they were, and no deadlock
\* results. A handler that holds a handle acts on the record of the handle,
\* whatever the map says by then; a lookup yields what the map says.
C15_CollisionOverwrites ==
  [][/\ \A p \in Procs :
          (/\ pc[p] = "ns_insert"
           /\ Steps(p)
           /\ local[p].session_id \in DOMAIN sessions)
          => /\ pc'[p] = "done"
             /\ resp'[p] = Response(200, "id_base64",
                                    Encoded[local[p].session_id], NoSession)
             /\ sessions' = [sessions EXCEPT ![local[p].session_id] = local[p].session]
             /\ sessions[local[p].session_id] # local[p].session
             /\ heap[local[p].session] = NewSession
             /\ heap' = heap
             /\ \A q \in Procs \ {p} : local'[q] = local[q] /\ pc'[q] = pc[q]
             /\ NoDeadlock'
     /\ \A q \in Procs :
          /\ (pc[q] \in { "auth_get", "state_get" } /\ Steps(q))
             => local'[q].session = IF local[q].session_id \in DOMAIN sessions
                                    THEN sessions[local[q].session_id] ELSE 0
          /\ (pc[q] \in { "auth_apply", "auth_user", "state_read" } /\ Steps(q))
             => /\ \A o \in 1..Len(heap) \ {local[q].session} : heap'[o] = heap[o]
                /\ pc[q] = "state_read"
                   => resp'[q] = Response(200, "state", << >>, heap[local[q].session])
                /\ pc[q] = "auth_user"
                   => heap'[local[q].session].user = Some(req[q].user)]_vars

\* a create-session has returned an identifier that was a key already, while
\* an authenticate that looked the identifier up before holds the old session;
\* the authenticate has set the old session's flag and the new one is fresh
C15_Witness ==
  \E p, q \in Procs :
    /\ req[p].op = "new_session" /\ Done(p)
    /\ req[q].op = "authenticate" /\ pc[q] = "auth_user"
    /\ resp[p].id = req[q].session_id
    /\ sessions[local[q].session_id] = local[p].session
    /\ local[q].session # local[p].session
    /\ heap[local[q].session].authenticated
    /\ heap[local[p].session] = NewSession

\* C16: no step of an authenticate request changes the map, the number of
\* sessions, any description or any session other than the one it found; only
\* the two assignments of a request that returns 200 change that session:
\* authenticated becomes true, then user becomes the form's user. A request
\* that returns an error has changed nothing.
C16_AuthenticateFrame ==
  [][\A p \in Procs :
       (req'[p].op = "authenticate" /\ pc'[p] # pc[p])
       => /\ sessions' = sessions
          /\ Len(heap') = Len(heap)
          /\ \A o \in 1..Len(heap) : heap'[o].description = heap[o].description
          /\ pc[p] \notin { "auth_apply", "auth_user" } => heap' = heap
          /\ (Returns(p) /\ resp'[p].status # 200)
             => /\ heap' = heap
                /\ pc[p] # "auth_user"
          /\ (pc[p] = "auth_apply" /\ pc'[p] # "done")
             => /\ pc'[p] = "auth_user"
                /\ heap' = [heap EXCEPT ![local[p].session].authenticated = TRUE]
          /\ pc[p] = "auth_user"
             => /\ Returns(p)
                /\ resp'[p].status = 200
                /\ heap' = [heap EXCEPT ![local[p].session].user = Some(req[p].user)]]_vars

\* an authenticate has returned 200 on one session, which keeps its
\* description, another authenticate has returned an error, and the other
\* session is as it was created
C16_Witness ==
  \E p, q \in Procs : \E o, b \in 1..Len(heap) :
    /\ o # b
    /\ AuthOn(p, o) /\ Succeeded(p)
    /\ heap[o] = [user |-> Some(req[p].user), description |-> "Some session...",
                  authenticated |-> TRUE]
    /\ req[q].op = "authenticate" /\ Done(q) /\ resp[q].status = 400
    /\ heap[b] = NewSession
    /\ DOMAIN sessions = GenIds

\* the tasks that hold lock l in write mode, or wait for it in write mode
\* ahead of q
WritersBefore(l, q) ==
  IF Waits(l, q)
  THEN LET n == CHOOSE i \in 1..Len(l.waiters) : l.waiters[i].proc = q IN
       l.writer \cup { l.waiters[i].proc : i \in { j \in 1..(n - 1) : l.waiters[j].write } }
  ELSE {}

\* task q never holds or awaits lock l in write mode
OnlyShared(l, q) ==
  /\ q \notin l.writer
  /\ \A i \in 1..Len(l.waiters) : l.waiters[i].proc = q => ~l.waiters[i].write

\* C17: a read-state holds and awaits the map's lock and the session's lock
\* in read mode only, and whenever it waits for a lock, a create-session or an
\* authenticate holds that lock in write mode or waits for it in write mode
\* ahead of it: read-state requests alone never make a read-state wait.
C17_ReadsShareAccess ==
  \A q \in Procs :
    req[q].op = "session_state"
    => /\ OnlyShared(sessions_lock, q)
       /\ \A o \in 1..Len(heap_lock) : OnlyShared(heap_lock[o], q)
       /\ ~Ready(q)
          => \E b \in WritersBefore(sessions_lock, q)
                        \cup UNION { WritersBefore(heap_lock[o], q) :
                                       o \in 1..Len(heap_lock) } :
               req[b].op \in { "new_session", "authenticate" }

\* two read-state requests hold the read lock of one session at the same time
C17_Witness ==
  \E p, q \in Procs : \E o \in 1..Len(heap_lock) :
    /\ p # q
    /\ StateOn(p, o) /\ pc[p] = "state_read"
    /\ StateOn(q, o) /\ pc[q] = "state_read"
    /\ heap_lock[o].readers = { p, q }

\* authenticated is true exactly when user is set
Consistent(s) == s.authenticated <=> s.user # None

\* C18: whenever no handler holds a session's write lock, the session has
\* authenticated = true if and only if its user is set, and every session
\* state a read-state has returned has authenticated = true if and only if
\* its user is set.
C18_AuthenticatedIffUser ==
  /\ \A o \in 1..Len(heap) : heap_lock[o].writer = {} => Consistent(heap[o])
  /\ \A p \in Procs :
       (req[p].op = "session_state" /\ Done(p) /\ resp[p].kind = "state")
       => Consistent(resp[p].session)

\* a read-state has returned the state of a session on which an authenticate
\* now stands between lines 130 and 131: authenticated is set, user is not
C18_Witness ==
  \E p, q \in Procs : \E o \in 1..Len(heap) :
    /\ AuthOn(p, o) /\ pc[p] = "auth_user"
    /\ ~Consistent(heap[o])
    /\ StateOn(q, o) /\ Done(q)
    /\ resp[q] = Response(200, "state", << >>, NewSession)

====
